---- MODULE Spec2Model ----
(***************************************************************************)
(* Model of the GIG-SAFE scoring pipeline (app/ml/anomaly_detection.py,    *)
(* class GigSafeMLPipeline) and of the places of the serving layer         *)
(* (app/main.py) that derive a risk level from a driver risk score.        *)
(*                                                                         *)
(* Numbers are exact rationals <<n, d>> with d > 0 in lowest terms; a      *)
(* missing value (pandas NaN) is the string "NaN".  The two scikit-learn   *)
(* models are library code: their per-row outputs are drawn from the       *)
(* values the library can return.                                          *)
(***************************************************************************)
EXTENDS Integers, Sequences, FiniteSets, TLC

VARIABLES
    trips_csv,         \* content of the trips CSV file given to the run
    trips_df,          \* self.trips_df
    government_df,     \* local government_df of run_full_pipeline
    gov_fetch,         \* how step 1.5 of the current run went
    features_df,       \* the feature table handed from stage to stage
    driver_metrics,    \* result of aggregate_driver_scores
    scaler,            \* self.scaler
    isolation_forest,  \* self.isolation_forest
    dbscan,            \* self.dbscan
    files,             \* files on disk written/read by the pipeline
    pc,                \* position inside the running operation
    op,                \* the operation running or last finished
    run,               \* number of run_full_pipeline calls started
    err,               \* exception raised by the last finished operation
    driver_risk_df,    \* main.py: the driver table the API server has loaded
    response           \* main.py: drivers of the last get_high_risk_drivers answer

vars == <<trips_csv, trips_df, government_df, gov_fetch, features_df,
          driver_metrics, scaler, isolation_forest, dbscan, files, pc, op, run,
          err, driver_risk_df, response>>

\* the variables of the API server
server == <<driver_risk_df, response>>

-----------------------------------------------------------------------------
(* Bounds *)

MaxTrips == 2

MaxRuns == 2

-----------------------------------------------------------------------------
(* Exact rational arithmetic *)

Abs(n) == IF n < 0 THEN -n ELSE n

RECURSIVE GCD(_, _)
GCD(a, b) == IF b = 0 THEN a ELSE GCD(b, a % b)

Norm(n, d) == LET g == GCD(Abs(n), d) IN <<n \div g, d \div g>>

Rat(n) == <<n, 1>>

\* sums and products cancel common factors before multiplying
RAdd(x, y) ==
    LET g == GCD(x[2], y[2])
    IN Norm(x[1] * (y[2] \div g) + y[1] * (x[2] \div g), x[2] * (y[2] \div g))

RMul(x, y) ==
    LET g1 == GCD(Abs(x[1]), y[2])
        g2 == GCD(Abs(y[1]), x[2])
    IN IF x[1] = 0 \/ y[1] = 0 THEN <<0, 1>>
       ELSE <<(x[1] \div g1) * (y[1] \div g2), (x[2] \div g2) * (y[2] \div g1)>>

\* x / y for y > 0
RDiv(x, y) == RMul(x, <<y[2], y[1]>>)

RLt(x, y) == x[1] * y[2] < y[1] * x[2]

RLe(x, y) == x[1] * y[2] <= y[1] * x[2]

RMinOf(x, y) == IF RLe(x, y) THEN x ELSE y

RMaxOf(x, y) == IF RLe(x, y) THEN y ELSE x

\* Series.clip(upper=u)
ClipUpper(x, u) == RMinOf(x, u)

\* Series.clip(lower=l)
ClipLower(x, l) == RMaxOf(x, l)

RECURSIVE SeqMax(_)
\* Series.max() of a non-empty column of rationals
SeqMax(col) ==
    IF Len(col) = 1 THEN col[1]
    ELSE RMaxOf(col[1], SeqMax(Tail(col)))

RECURSIVE SeqMin(_)
\* Series.min() of a non-empty column of rationals
SeqMin(col) ==
    IF Len(col) = 1 THEN col[1]
    ELSE RMinOf(col[1], SeqMin(Tail(col)))

RECURSIVE SeqSum(_)
\* Series.sum() of a column of rationals
SeqSum(col) ==
    IF Len(col) = 0 THEN Rat(0)
    ELSE RAdd(col[1], SeqSum(Tail(col)))

-----------------------------------------------------------------------------
(* Input domains *)

DriverIds == {"DRV1", "DRV2"}

\* <<max_speed_kmh, route_deviation_score, hour_of_day>> of the trips used:
\* calm, deviating, speeding by day with a negative deviation score, speeding
\* and deviating in the evening
TripProfiles ==
    {<<50, 0, 10>>, <<50, 10, 10>>, <<90, -5, 10>>, <<90, 10, 19>>}

TripRows ==
    {[driver_id |-> d, max_speed_kmh |-> p[1],
      route_deviation_score |-> p[2], hour_of_day |-> p[3]] :
        d \in DriverIds, p \in TripProfiles}

\* the tables of 1..MaxTrips trips; worker ids are labels the pipeline only
\* groups by, so the first trip is taken to be DRV1's
TripTables ==
    {t \in UNION {[1..n -> TripRows] : n \in 1..MaxTrips} :
        t[1].driver_id = "DRV1"}

\* The risk table of GovernmentDataService as its set of
\* <<state_ut, risk_index>> rows; {} is the empty DataFrame.
GovTables == {{}, {<<"Rajasthan", 0>>}, {<<"Rajasthan", 60>>}}

\* fetch_accident_data either raises or returns a table
GovSources ==
    {[raises |-> TRUE, table |-> {}]} \cup
    {[raises |-> FALSE, table |-> t] : t \in GovTables}

\* government_df of run_full_pipeline: None, or a table
NoGovernmentDf == [is_none |-> TRUE, table |-> {}]

-----------------------------------------------------------------------------
(* Feature Extractor *)

high_accident_hours == {18, 19, 20, 21, 22, 23}

accident_prone_speed == 80

\* a context test that forgets the .empty check
HasGovContextIgnoringEmpty(gdf) == ~gdf.is_none

\* government_df is not None and not government_df.empty
HasGovContext(gdf) == ~gdf.is_none /\ gdf.table # {}

\* a lookup in which no state matches the map, so every row gets the default
StateRiskAlwaysNeutral(gdf, state) == 50

\* features['state'].map(state_risk_map).fillna(50)
StateRisk(gdf, state) ==
    IF \E p \in gdf.table : p[1] = state
    THEN (CHOOSE p \in gdf.table : p[1] = state)[2]
    ELSE 50

\* the columns extract_features adds to one trip row
ExtractRow(row, gdf) ==
    LET base == row @@ [high_deviation |->
                            IF row.route_deviation_score > 15 THEN 1 ELSE 0]
    IN IF HasGovContext(gdf)
       THEN LET risk == StateRisk(gdf, "Rajasthan")
                t == IF row.hour_of_day \in high_accident_hours THEN 1 ELSE 0
                sp == IF row.max_speed_kmh > accident_prone_speed THEN 1 ELSE 0
            IN base @@
               [state |-> "Rajasthan",
                gov_state_risk |-> risk,
                gov_high_accident_time |-> t,
                gov_speed_accident_prone |-> sp,
                gov_compound_risk |->
                    RAdd(RAdd(RMul(Rat(risk), <<1, 2>>), Rat(t * 20)),
                         Rat(sp * 30)),
                gov_deviation_risk_interaction |->
                    RMul(Rat(row.route_deviation_score), RDiv(Rat(risk), Rat(100)))]
       ELSE base @@
               [gov_state_risk |-> 50,
                gov_high_accident_time |-> 0,
                gov_speed_accident_prone |-> 0,
                gov_compound_risk |-> Rat(0),
                gov_deviation_risk_interaction |-> Rat(0)]

\* an extractor that keeps adding to the feature table of the pipeline
\* object, which still holds the rows of the run before
extract_features_appending(tdf, gdf) ==
    features_df \o [i \in 1..Len(tdf) |-> ExtractRow(tdf[i], gdf)]

\* the feature table: a new table with one row for each trip row
extract_features(tdf, gdf) == [i \in 1..Len(tdf) |-> ExtractRow(tdf[i], gdf)]

-----------------------------------------------------------------------------
(* Risk Composer *)

speed_limit == 60

\* pd.cut(x, bins=[0, 30, 60, 100], labels=['Low', 'Medium', 'High']):
\* right-closed bins (0,30], (30,60], (60,100]; a value in no bin is NaN
PdCut(x) ==
    IF RLt(Rat(0), x) /\ RLe(x, Rat(30)) THEN "Low"
    ELSE IF RLt(Rat(30), x) /\ RLe(x, Rat(60)) THEN "Medium"
    ELSE IF RLt(Rat(60), x) /\ RLe(x, Rat(100)) THEN "High"
    ELSE "NaN"

\* a normalisation that leaves the weight out
ScaleByMaxUnweighted(x, mx, weight) ==
    IF RLt(Rat(0), mx) THEN RDiv(x, mx) ELSE Rat(0)

\* (column / column.max()) * weight if the maximum is positive, else 0
ScaleByMax(x, mx, weight) ==
    IF RLt(Rat(0), mx) THEN RMul(RDiv(x, mx), Rat(weight)) ELSE Rat(0)

\* a regional component scaled against the index ceiling 100 instead of the
\* table maximum
GovContextRiskPerCent(compound, max_gov_risk, enabled) ==
    IF enabled /\ RLt(Rat(0), max_gov_risk)
    THEN RMul(RDiv(compound, Rat(100)), Rat(20))
    ELSE Rat(0)

\* if has_gov_features and use_gov_context: (compound / max) * 20 if
\* max_gov_risk > 0 else 0; else: 0
GovContextRisk(compound, max_gov_risk, enabled) ==
    IF enabled THEN ScaleByMax(compound, max_gov_risk, 20) ELSE Rat(0)

\* the total as it was before the regional component was added
TotalRiskWithoutGov(r_if, r_db, r_route, r_speed, r_gov) ==
    ClipUpper(RAdd(RAdd(RAdd(r_if, r_db), r_route), r_speed), Rat(100))

\* total of the five components, .clip(upper=100)
TotalRisk(r_if, r_db, r_route, r_speed, r_gov) ==
    ClipUpper(RAdd(RAdd(RAdd(RAdd(r_if, r_db), r_route), r_speed), r_gov),
              Rat(100))

calculate_risk_scores(df, use_gov_context) ==
    LET n == Len(df)
        violation == [i \in 1..n |->
                        ClipLower(Rat(df[i].max_speed_kmh - speed_limit), Rat(0))]
        max_deviation == SeqMax([i \in 1..n |-> Rat(df[i].route_deviation_score)])
        max_violation == SeqMax(violation)
        max_gov_risk == SeqMax([i \in 1..n |-> df[i].gov_compound_risk])
        has_gov_features == \A i \in 1..n : "gov_compound_risk" \in DOMAIN df[i]
        Scored(i) ==
            LET r_if == Rat(df[i].anomaly_if * 30)
                r_db == Rat(df[i].is_outlier_dbscan * 25)
                r_route == ScaleByMax(Rat(df[i].route_deviation_score),
                                      max_deviation, 15)
                r_speed == ScaleByMax(violation[i], max_violation, 10)
                r_gov == GovContextRisk(df[i].gov_compound_risk, max_gov_risk,
                                        has_gov_features /\ use_gov_context)
                total == TotalRisk(r_if, r_db, r_route, r_speed, r_gov)
            IN df[i] @@
               [risk_if |-> r_if, risk_dbscan |-> r_db, risk_route |-> r_route,
                speed_violation |-> violation[i], risk_speed |-> r_speed,
                risk_gov_context |-> r_gov, risk_score |-> total,
                risk_level |-> PdCut(total)]
    IN [i \in 1..n |-> Scored(i)]

-----------------------------------------------------------------------------
(* Driver Aggregator *)

\* the rows of one driver, in table order
RECURSIVE RowsOf(_, _)
RowsOf(df, d) ==
    IF Len(df) = 0 THEN <<>>
    ELSE IF df[1].driver_id = d THEN <<df[1]>> \o RowsOf(Tail(df), d)
    ELSE RowsOf(Tail(df), d)

\* pandas 'std' (ddof=1): NaN for a single value, else the sample standard
\* deviation, kept as its square
SampleStd(col) ==
    LET n == Len(col)
        mean == RDiv(SeqSum(col), Rat(n))
        dev2 == [i \in 1..n |->
                   LET dv == RAdd(col[i], RMul(Rat(-1), mean)) IN RMul(dv, dv)]
    IN IF n < 2 THEN [is_nan |-> TRUE, squared |-> Rat(0)]
       ELSE [is_nan |-> FALSE, squared |-> RDiv(SeqSum(dev2), Rat(n - 1))]

\* the driver score with the weights of mean and max exchanged
DriverRiskScoreMaxHeavy(mean, mx, rate) ==
    ClipUpper(RAdd(RAdd(RMul(mean, <<3, 10>>), RMul(mx, <<6, 10>>)),
                   RMul(rate, <<1, 10>>)),
              Rat(100))

\* mean * 0.6 + max * 0.3 + anomaly_rate * 0.1, .clip(upper=100)
DriverRiskScore(mean, mx, rate) ==
    ClipUpper(RAdd(RAdd(RMul(mean, <<6, 10>>), RMul(mx, <<3, 10>>)),
                   RMul(rate, <<1, 10>>)),
              Rat(100))

\* a driver row whose anomaly_rate counts the cluster outliers as well
DriverRowRatingOutliers(df, d) ==
    LET rows == RowsOf(df, d)
        n == Len(rows)
        scores == [i \in 1..n |-> rows[i].risk_score]
        mean == RDiv(SeqSum(scores), Rat(n))
        mx == SeqMax(scores)
        anomalous == SeqSum([i \in 1..n |-> Rat(rows[i].anomaly_if)])
        outliers == SeqSum([i \in 1..n |-> Rat(rows[i].is_outlier_dbscan)])
        rate == RMul(RDiv(RAdd(anomalous, outliers), Rat(n)), Rat(100))
        score == DriverRiskScore(mean, mx, rate)
    IN [driver_id |-> d,
        risk_score_mean |-> mean, risk_score_max |-> mx,
        risk_score_std |-> SampleStd(scores),
        anomalous_trips |-> anomalous[1], outlier_trips |-> outliers[1],
        avg_route_deviation |->
            RDiv(SeqSum([i \in 1..n |-> Rat(rows[i].route_deviation_score)]), Rat(n)),
        max_speed_ever |-> SeqMax([i \in 1..n |-> Rat(rows[i].max_speed_kmh)])[1],
        total_trips |-> n,
        anomaly_rate |-> rate,
        driver_risk_score |-> score,
        driver_risk_level |-> PdCut(score)]

\* one row of the groupby('driver_id').agg(...) result with the derived columns
DriverRow(df, d) ==
    LET rows == RowsOf(df, d)
        n == Len(rows)
        scores == [i \in 1..n |-> rows[i].risk_score]
        mean == RDiv(SeqSum(scores), Rat(n))
        mx == SeqMax(scores)
        anomalous == SeqSum([i \in 1..n |-> Rat(rows[i].anomaly_if)])
        outliers == SeqSum([i \in 1..n |-> Rat(rows[i].is_outlier_dbscan)])
        rate == RMul(RDiv(anomalous, Rat(n)), Rat(100))
        score == DriverRiskScore(mean, mx, rate)
    IN [driver_id |-> d,
        risk_score_mean |-> mean, risk_score_max |-> mx,
        risk_score_std |-> SampleStd(scores),
        anomalous_trips |-> anomalous[1], outlier_trips |-> outliers[1],
        avg_route_deviation |->
            RDiv(SeqSum([i \in 1..n |-> Rat(rows[i].route_deviation_score)]), Rat(n)),
        max_speed_ever |-> SeqMax([i \in 1..n |-> Rat(rows[i].max_speed_kmh)])[1],
        total_trips |-> n,
        anomaly_rate |-> rate,
        driver_risk_score |-> score,
        driver_risk_level |-> PdCut(score)]

\* an aggregation that groups the anomalous trips only, so that a worker
\* without an anomalous trip gets no row
aggregate_anomalous_drivers(df) ==
    LET ids == {df[i].driver_id : i \in {k \in 1..Len(df) : df[k].anomaly_if = 1}}
    IN [d \in ids |-> DriverRow(df, d)]

\* groupby('driver_id'): one row per driver id occurring in the table
aggregate_driver_scores(df) ==
    LET ids == {df[i].driver_id : i \in 1..Len(df)}
    IN [d \in ids |-> DriverRow(df, d)]

-----------------------------------------------------------------------------
(* Serving layer: places that derive a level from a driver risk score *)

\* verify_driver
VerifyDriverLevel(risk_score) ==
    IF RLt(risk_score, Rat(30)) THEN "Low"
    ELSE IF RLt(risk_score, Rat(60)) THEN "Medium"
    ELSE "High"

\* verify_qr_code
VerifyQrLevel(risk_score) ==
    IF RLt(risk_score, Rat(30)) THEN "Low"
    ELSE IF RLt(risk_score, Rat(60)) THEN "Medium"
    ELSE "High"

\* get_high_risk_drivers
HighRiskDriversLevel(risk_score) ==
    IF RLe(Rat(60), risk_score) THEN "High"
    ELSE IF RLe(Rat(30), risk_score) THEN "Medium"
    ELSE "Low"

\* get_high_risk_drivers: "requires_action": risk_score > 60
HighRiskDriversRequiresAction(risk_score) == RLt(Rat(60), risk_score)

\* get_dashboard_stats: len(driver_risk_df[driver_risk_df['driver_risk_score'] > 60])
DashboardHighRiskCount(dm) ==
    Cardinality({d \in DOMAIN dm : RLt(Rat(60), dm[d].driver_risk_score)})

-----------------------------------------------------------------------------
(* Pipeline object and files *)

\* feature_cols of detect_anomalies_isolation_forest
DetectorCols ==
    <<"avg_speed_kmh", "max_speed_kmh", "distance_km", "duration_minutes",
      "speed_variance", "speed_ratio", "route_deviation_score",
      "distance_per_minute", "time_deviation", "speed_vs_peer",
      "duration_vs_peer", "is_night", "is_peak_hour", "speed_vs_self">>

\* feature_cols of cluster_behavior_patterns
ClustererCols ==
    <<"avg_speed_kmh", "distance_km", "duration_minutes",
      "route_deviation_score", "hour_of_day", "distance_per_minute">>

\* StandardScaler(): not fitted
UnfittedScaler == [fitted |-> FALSE, cols |-> <<>>, run |-> 0]

\* scaler.fit_transform(X): the means and variances of columns cols of the
\* table of run r
FittedScaler(cols, r) == [fitted |-> TRUE, cols |-> cols, run |-> r]

\* None
NoModel == [is_none |-> TRUE, cols |-> <<>>, run |-> 0]

\* a model fitted on the standardized columns cols of the table of run r
FittedModel(cols, r) == [is_none |-> FALSE, cols |-> cols, run |-> r]

TripsFile == "data/processed/trip_analysis.csv"

DriversFile == "data/processed/driver_risk_scores.csv"

ScalerFile == "models/trained/scaler.pkl"

ForestFile == "models/trained/isolation_forest.pkl"

DbscanFile == "models/trained/dbscan.pkl"

ResultFiles == {TripsFile, DriversFile}

ModelFiles == {ScalerFile, ForestFile, DbscanFile}

Absent == [exists |-> FALSE, run |-> 0, obj |-> <<>>]

\* a file holding obj, written during run r (0: outside any run)
Written(obj, r) == [exists |-> TRUE, run |-> r, obj |-> obj]

NoMetrics == [d \in {} |-> 0]

-----------------------------------------------------------------------------
(* GigSafeMLPipeline.__init__ and the files before the first run *)

InitPipeline ==
    /\ trips_df = <<>>
    /\ government_df = NoGovernmentDf
    /\ gov_fetch = "not_run"
    /\ features_df = <<>>
    /\ driver_metrics = NoMetrics
    /\ scaler = UnfittedScaler
    /\ isolation_forest = NoModel
    /\ dbscan = NoModel
    /\ files = [f \in ResultFiles \cup ModelFiles |-> Absent]
    /\ pc = "idle"
    /\ op = "none"
    /\ run = 0
    /\ err = "none"

\* no API server is running beside the pipeline
ServerNotStarted ==
    /\ driver_risk_df = NoMetrics
    /\ response = <<>>

Init ==
    /\ trips_csv \in TripTables
    /\ InitPipeline
    /\ ServerNotStarted

-----------------------------------------------------------------------------
(* run_full_pipeline, step by step *)

\* an exception leaves the running operation
Raise(e) ==
    /\ pc' = "idle"
    /\ err' = e

\* Step 1: load_data
LoadData ==
    /\ pc = "idle"
    /\ run < MaxRuns
    /\ run' = run + 1
    /\ op' = "run_full_pipeline"
    /\ err' = "none"
    /\ trips_df' = trips_csv
    /\ pc' = "load_government"
    /\ UNCHANGED <<server, trips_csv, government_df, gov_fetch, features_df,
                   driver_metrics, scaler, isolation_forest, dbscan, files>>

\* what the try block of step 1.5 did: not entered (use_government_data is
\* false), left by an exception, or ended with an empty or a non-empty table
FetchOutcome(use_government_data, gov_source) ==
    IF ~use_government_data THEN "disabled"
    ELSE IF gov_source.raises THEN "raised"
    ELSE IF gov_source.table = {} THEN "empty"
    ELSE "loaded"

\* Step 1.5: government_df = None; fetch inside try/except when enabled
LoadGovernmentData ==
    /\ pc = "load_government"
    /\ \E use_government_data \in BOOLEAN, gov_source \in GovSources :
         /\ government_df' =
               IF use_government_data /\ ~gov_source.raises
               THEN [is_none |-> FALSE, table |-> gov_source.table]
               ELSE NoGovernmentDf
         /\ gov_fetch' = FetchOutcome(use_government_data, gov_source)
    /\ pc' = "extract_features"
    /\ UNCHANGED <<server, trips_csv, trips_df, features_df, driver_metrics,
                   scaler, isolation_forest, dbscan, files, op, run, err>>

\* the trip columns extract_features reads by name
RequiredCols ==
    {"driver_id", "max_speed_kmh", "route_deviation_score", "hour_of_day"}

\* the columns of RequiredCols the table does not have
MissingCols(tdf) ==
    {c \in RequiredCols : \E i \in 1..Len(tdf) : c \notin DOMAIN tdf[i]}

\* the caller's table when extract_features works on the table itself
\* (features = trips_df) and so adds its columns to it
CallerTableAliased(tdf, features) == features

\* the caller's table after extract_features: features = trips_df.copy(), so
\* the columns are added to the copy and the table is as it was
CallerTable(tdf, features) == tdf

\* Step 2: features[...] on a column the table lacks raises pandas' KeyError
ExtractFeatures ==
    /\ pc = "extract_features"
    /\ IF MissingCols(trips_df) = {}
       THEN /\ features_df' = extract_features(trips_df, government_df)
            /\ trips_df' = CallerTable(trips_df, features_df')
            /\ pc' = "detect_anomalies"
            /\ err' = err
       ELSE /\ Raise("KeyError")
            /\ features_df' = features_df
            /\ trips_df' = trips_df
    /\ UNCHANGED <<server, trips_csv, government_df, gov_fetch,
                   driver_metrics, scaler, isolation_forest, dbscan, files,
                   op, run>>

\* score_samples of the fitted forest: fit_predict flags the rows whose score
\* lies below the contamination percentile, so a flagged row scores lower
\* than an unflagged one; one score level is kept for each
NativeScore(prediction) == IF prediction = -1 THEN <<-3, 5>> ELSE <<-2, 5>>

\* the value of a float expression that came out as NaN
NaNScore == [is_nan |-> TRUE, value |-> Rat(0)]

\* (1 - (s - min) / (max - min)) * 100; with max = min the quotient is the
\* float 0/0, NaN, and no exception is raised
NormalisedScore(s, lo, hi) ==
    IF hi = lo THEN NaNScore
    ELSE LET range == RAdd(hi, RMul(Rat(-1), lo))
             scores_normalized == RDiv(RAdd(s, RMul(Rat(-1), lo)), range)
         IN [is_nan |-> FALSE,
             value |-> RMul(RAdd(Rat(1), RMul(Rat(-1), scores_normalized)),
                            Rat(100))]

\* Step 3: fit the scaler on the detector's columns, fit the forest, add the flag
DetectAnomalies ==
    /\ pc = "detect_anomalies"
    /\ scaler' = FittedScaler(DetectorCols, run)
    /\ isolation_forest' = FittedModel(DetectorCols, run)
    /\ \E predictions \in [1..Len(features_df) -> {-1, 1}] :
         LET anomaly_scores ==
                 [i \in 1..Len(features_df) |-> NativeScore(predictions[i])]
             lo == SeqMin(anomaly_scores)
             hi == SeqMax(anomaly_scores)
         IN features_df' =
             [i \in 1..Len(features_df) |->
                features_df[i] @@
                [anomaly_if |-> IF predictions[i] = -1 THEN 1 ELSE 0,
                 anomaly_score_if |->
                     NormalisedScore(anomaly_scores[i], lo, hi)]]
    /\ pc' = "cluster_behavior"
    /\ UNCHANGED <<server, trips_csv, trips_df, government_df, gov_fetch,
                   driver_metrics, dbscan, files, op, run, err>>

\* a flag that takes cluster 0 for the noise label
OutlierFlagOfClusterZero(cluster) == IF cluster = 0 THEN 1 ELSE 0

\* (clusters == -1).astype(int)
OutlierFlag(cluster) == IF cluster = -1 THEN 1 ELSE 0

\* Step 4: fit the same scaler on the clusterer's columns, fit DBSCAN, add the
\* cluster id and the outlier flag
ClusterBehavior ==
    /\ pc = "cluster_behavior"
    /\ scaler' = FittedScaler(ClustererCols, run)
    /\ dbscan' = FittedModel(ClustererCols, run)
    /\ \E clusters \in [1..Len(features_df) -> {-1, 0}] :
         features_df' =
             [i \in 1..Len(features_df) |->
                features_df[i] @@
                [behavior_cluster |-> clusters[i],
                 is_outlier_dbscan |-> OutlierFlag(clusters[i])]]
    /\ pc' = "calculate_risk"
    /\ UNCHANGED <<server, trips_csv, trips_df, government_df, gov_fetch,
                   driver_metrics, isolation_forest, files, op, run, err>>

\* a risk step after which the run goes straight on to save_models
CalculateRiskScoresThenSave ==
    /\ pc = "calculate_risk"
    /\ features_df' = calculate_risk_scores(features_df, ~government_df.is_none)
    /\ pc' = "save_scaler"
    /\ UNCHANGED <<server, trips_csv, trips_df, government_df, gov_fetch,
                   driver_metrics, scaler, isolation_forest, dbscan, files,
                   op, run, err>>

\* Step 5
CalculateRiskScores ==
    /\ pc = "calculate_risk"
    /\ features_df' = calculate_risk_scores(features_df, ~government_df.is_none)
    /\ pc' = "aggregate"
    /\ UNCHANGED <<server, trips_csv, trips_df, government_df, gov_fetch,
                   driver_metrics, scaler, isolation_forest, dbscan, files,
                   op, run, err>>

\* Step 6
AggregateDriverScores ==
    /\ pc = "aggregate"
    /\ driver_metrics' = aggregate_driver_scores(features_df)
    /\ pc' = "save_results"
    /\ UNCHANGED <<server, trips_csv, trips_df, government_df, gov_fetch, features_df,
                   scaler, isolation_forest, dbscan, files, op, run, err>>

\* a step 7 after which a run that does not save its tables returns at once,
\* without save_models
WriteTripAnalysisOrReturn ==
    /\ pc = "save_results"
    /\ \E save_results \in BOOLEAN :
         IF save_results
         THEN \/ /\ files' = [files EXCEPT ![TripsFile] = Written(features_df, run)]
                 /\ pc' = "write_driver_metrics"
                 /\ err' = err
              \/ /\ Raise("OSError")
                 /\ files' = files
         ELSE /\ pc' = "idle"
              /\ err' = err
              /\ files' = files
    /\ UNCHANGED <<server, trips_csv, trips_df, government_df, gov_fetch, features_df,
                   driver_metrics, scaler, isolation_forest, dbscan, op, run>>

\* Step 7, first table: features_df.to_csv(...) when save_results
WriteTripAnalysis ==
    /\ pc = "save_results"
    /\ \E save_results \in BOOLEAN :
         IF save_results
         THEN \/ /\ files' = [files EXCEPT ![TripsFile] = Written(features_df, run)]
                 /\ pc' = "write_driver_metrics"
                 /\ err' = err
              \/ /\ Raise("OSError")
                 /\ files' = files
         ELSE /\ pc' = "save_scaler"
              /\ err' = err
              /\ files' = files
    /\ UNCHANGED <<server, trips_csv, trips_df, government_df, gov_fetch, features_df,
                   driver_metrics, scaler, isolation_forest, dbscan, op, run>>

\* Step 7, second table: driver_metrics.to_csv(...)
WriteDriverMetrics ==
    /\ pc = "write_driver_metrics"
    /\ \/ /\ files' = [files EXCEPT ![DriversFile] = Written(driver_metrics, run)]
          /\ pc' = "save_scaler"
          /\ err' = err
       \/ /\ Raise("OSError")
          /\ files' = files
    /\ UNCHANGED <<server, trips_csv, trips_df, government_df, gov_fetch, features_df,
                   driver_metrics, scaler, isolation_forest, dbscan, op, run>>

-----------------------------------------------------------------------------
(* save_models: three dumps in sequence; also callable on its own *)

CallSaveModels ==
    /\ pc = "idle"
    /\ op' = "save_models"
    /\ err' = "none"
    /\ pc' = "save_scaler"
    /\ UNCHANGED <<server, trips_csv, trips_df, government_df, gov_fetch, features_df,
                   driver_metrics, scaler, isolation_forest, dbscan, files, run>>

\* pickle.dump(obj, f) into file name, then continue at next
Dump(name, obj, next) ==
    \/ /\ files' = [files EXCEPT ![name] = Written(obj, run)]
       /\ pc' = next
       /\ err' = err
    \/ /\ Raise("OSError")
       /\ files' = files

SaveScaler ==
    /\ pc = "save_scaler"
    /\ Dump(ScalerFile, scaler, "save_forest")
    /\ UNCHANGED <<server, trips_csv, trips_df, government_df, gov_fetch, features_df,
                   driver_metrics, scaler, isolation_forest, dbscan, op, run>>

SaveIsolationForest ==
    /\ pc = "save_forest"
    /\ Dump(ForestFile, isolation_forest, "save_dbscan")
    /\ UNCHANGED <<server, trips_csv, trips_df, government_df, gov_fetch, features_df,
                   driver_metrics, scaler, isolation_forest, dbscan, op, run>>

SaveDbscan ==
    /\ pc = "save_dbscan"
    /\ Dump(DbscanFile, dbscan, "idle")
    /\ UNCHANGED <<server, trips_csv, trips_df, government_df, gov_fetch, features_df,
                   driver_metrics, scaler, isolation_forest, dbscan, op, run>>

-----------------------------------------------------------------------------
(* load_models: three loads in sequence, each assigned as soon as read *)

\* with open(name, 'rb') as f: pickle.load(f)
CanOpen(name) == files[name].exists

LoadScaler ==
    /\ pc = "idle"
    /\ op' = "load_models"
    /\ IF CanOpen(ScalerFile)
       THEN /\ scaler' = files[ScalerFile].obj
            /\ pc' = "load_forest"
            /\ err' = "none"
       ELSE /\ Raise("FileNotFoundError")
            /\ scaler' = scaler
    /\ UNCHANGED <<server, trips_csv, trips_df, government_df, gov_fetch, features_df,
                   driver_metrics, isolation_forest, dbscan, files, run>>

LoadIsolationForest ==
    /\ pc = "load_forest"
    /\ IF CanOpen(ForestFile)
       THEN /\ isolation_forest' = files[ForestFile].obj
            /\ pc' = "load_dbscan"
            /\ err' = err
       ELSE /\ Raise("FileNotFoundError")
            /\ isolation_forest' = isolation_forest
    /\ UNCHANGED <<server, trips_csv, trips_df, government_df, gov_fetch, features_df,
                   driver_metrics, scaler, dbscan, files, op, run>>

LoadDbscan ==
    /\ pc = "load_dbscan"
    /\ IF CanOpen(DbscanFile)
       THEN /\ dbscan' = files[DbscanFile].obj
            /\ pc' = "idle"
            /\ err' = err
       ELSE /\ Raise("FileNotFoundError")
            /\ dbscan' = dbscan
    /\ UNCHANGED <<server, trips_csv, trips_df, government_df, gov_fetch, features_df,
                   driver_metrics, scaler, isolation_forest, files, op, run>>

-----------------------------------------------------------------------------
(* Specifications *)

\* One run of the data path on every small trip table: steps 1 to 6.
Next ==
    \/ LoadData
    \/ LoadGovernmentData
    \/ ExtractFeatures
    \/ DetectAnomalies
    \/ ClusterBehavior
    \/ CalculateRiskScores
    \/ AggregateDriverScores

Spec == Init /\ [][Next]_vars

\* The table used to exercise persistence
StoreTrips ==
    <<[driver_id |-> "DRV1", max_speed_kmh |-> 90,
       route_deviation_score |-> 10, hour_of_day |-> 19]>>

\* a trips file written without the route_deviation_score column
IncompleteTrips ==
    <<[driver_id |-> "DRV1", max_speed_kmh |-> 90, hour_of_day |-> 19]>>

StoreInit ==
    /\ trips_csv \in {StoreTrips, IncompleteTrips}
    /\ InitPipeline
    /\ ServerNotStarted

\* Repeated runs of run_full_pipeline on one pipeline object, with their
\* writes and the save_models at their end, where every write can fail.
RunNext ==
    \/ Next
    \/ WriteTripAnalysis
    \/ WriteDriverMetrics
    \/ SaveScaler
    \/ SaveIsolationForest
    \/ SaveDbscan

RunSpec == StoreInit /\ [][RunNext]_vars

\* Repeated runs with their writes, save_models and load_models, where every
\* write can fail.
StoreNext ==
    \/ Next
    \/ WriteTripAnalysis
    \/ WriteDriverMetrics
    \/ CallSaveModels
    \/ SaveScaler
    \/ SaveIsolationForest
    \/ SaveDbscan
    \/ LoadScaler
    \/ LoadIsolationForest
    \/ LoadDbscan

StoreSpec == StoreInit /\ [][StoreNext]_vars

-----------------------------------------------------------------------------
(* The API server: get_high_risk_drivers on a loaded driver table *)

\* driver_risk_score values around the thresholds of the level rules
ServedScores == {0, 29, 30, 31, 59, 60, 61, 100}

\* driver_risk_scores.csv as the server reads it at startup: one or two
\* drivers with their scores
ServedTables ==
    UNION {[ids -> {[driver_risk_score |-> Rat(x)] : x \in ServedScores}] :
           ids \in {{"DRV1"}, {"DRV1", "DRV2"}}}

\* driver_risk_df.nlargest(limit, 'driver_risk_score'): the limit drivers
\* with the largest scores, the first of the table on a tie
NLargest(df, limit) ==
    IF Cardinality(DOMAIN df) <= limit THEN DOMAIN df
    ELSE IF RLt(df["DRV1"].driver_risk_score, df["DRV2"].driver_risk_score)
         THEN {"DRV2"} ELSE {"DRV1"}

\* GET /api/drivers/high-risk
GetHighRiskDrivers ==
    /\ \E limit \in 1..2 :
         response' =
             [d \in NLargest(driver_risk_df, limit) |->
                [risk_score |-> driver_risk_df[d].driver_risk_score,
                 risk_level |->
                     HighRiskDriversLevel(driver_risk_df[d].driver_risk_score),
                 requires_action |->
                     HighRiskDriversRequiresAction(
                         driver_risk_df[d].driver_risk_score)]]
    /\ UNCHANGED <<driver_risk_df, trips_csv, trips_df, government_df,
                   gov_fetch, features_df, driver_metrics, scaler,
                   isolation_forest, dbscan, files, pc, op, run, err>>

ServeInit ==
    /\ trips_csv = StoreTrips
    /\ InitPipeline
    /\ driver_risk_df \in ServedTables
    /\ response = <<>>

ServeNext == GetHighRiskDrivers

ServeSpec == ServeInit /\ [][ServeNext]_vars

-----------------------------------------------------------------------------
(* Claims about the Risk Composer and the Driver Aggregator (Spec) *)

\* the feature table carries the Risk Composer's columns
Scored == pc \in {"aggregate", "save_results"}

\* the driver table has been computed
Aggregated == pc = "save_results"

InRange(x, lo, hi) == RLe(Rat(lo), x) /\ RLe(x, Rat(hi))

\* the level rule of the specification: Low below 30, Medium from 30 to below
\* 60, High from 60
RuleLevel(x) ==
    IF RLt(x, Rat(30)) THEN "Low"
    ELSE IF RLt(x, Rat(60)) THEN "Medium"
    ELSE "High"

\* C1: every scored trip row has risk_level Low iff risk_score < 30, Medium iff
\* 30 <= risk_score < 60 and High iff risk_score >= 60 (so 0 is Low, 30 is
\* Medium, 60 is High, and no row is without a level).
C1_TripLevelRule ==
    Scored =>
        \A i \in 1..Len(features_df) :
            features_df[i].risk_level = RuleLevel(features_df[i].risk_score)

\* C2: in every scored trip row each component lies within its weight range
\* and risk_score lies in [0,100].
C2_ComponentsInRange ==
    Scored =>
        \A i \in 1..Len(features_df) :
            /\ InRange(features_df[i].risk_if, 0, 30)
            /\ InRange(features_df[i].risk_dbscan, 0, 25)
            /\ InRange(features_df[i].risk_route, 0, 15)
            /\ InRange(features_df[i].risk_speed, 0, 10)
            /\ InRange(features_df[i].risk_gov_context, 0, 20)
            /\ InRange(features_df[i].risk_score, 0, 100)

\* C3: every worker row has driver_risk_score in [0,100] and driver_risk_level
\* equal to the trip-level rule applied to that score.
C3_DriverScoreAndLevel ==
    Aggregated =>
        \A d \in DOMAIN driver_metrics :
            /\ InRange(driver_metrics[d].driver_risk_score, 0, 100)
            /\ driver_metrics[d].driver_risk_level =
                   RuleLevel(driver_metrics[d].driver_risk_score)

\* C4: for every driver risk score in [0,100] the level stored by
\* aggregate_driver_scores and the levels derived by verify_driver,
\* verify_qr_code and get_high_risk_drivers are the same value, and the
\* dashboard's high-risk count is the number of drivers whose level is High.
C4_OneLevelRule ==
    Aggregated =>
        /\ \A d \in DOMAIN driver_metrics :
              LET s == driver_metrics[d].driver_risk_score
              IN InRange(s, 0, 100) =>
                    /\ driver_metrics[d].driver_risk_level = VerifyDriverLevel(s)
                    /\ VerifyDriverLevel(s) = VerifyQrLevel(s)
                    /\ VerifyQrLevel(s) = HighRiskDriversLevel(s)
        /\ (\A d \in DOMAIN driver_metrics :
              InRange(driver_metrics[d].driver_risk_score, 0, 100))
           => DashboardHighRiskCount(driver_metrics) =
                  Cardinality({d \in DOMAIN driver_metrics :
                      VerifyDriverLevel(driver_metrics[d].driver_risk_score) = "High"})

\* C5: in every scored trip row risk_score equals min(100, risk_if +
\* risk_dbscan + risk_route + risk_speed + risk_gov_context), the five terms
\* being the values stored in that row.
C5_TotalIsClampedSum ==
    Scored =>
        \A i \in 1..Len(features_df) :
            LET r == features_df[i]
                sum == SeqSum(<<r.risk_if, r.risk_dbscan, r.risk_route,
                                r.risk_speed, r.risk_gov_context>>)
            IN r.risk_score = (IF RLt(Rat(100), sum) THEN Rat(100) ELSE sum)

\* C5 witness: a scored row in which all five components are positive
C5_Witness ==
    /\ Scored
    /\ \E i \in 1..Len(features_df) :
          /\ RLt(Rat(0), features_df[i].risk_if)
          /\ RLt(Rat(0), features_df[i].risk_dbscan)
          /\ RLt(Rat(0), features_df[i].risk_route)
          /\ RLt(Rat(0), features_df[i].risk_speed)
          /\ RLt(Rat(0), features_df[i].risk_gov_context)
          /\ features_df[i].risk_score = Rat(100)

-----------------------------------------------------------------------------
(* Claims about the Model Store and the published tables (StoreSpec) *)

\* the three artifact files were written by one save after a training run
SavedByOneTrainingRun ==
    /\ \A f \in ModelFiles :
          files[f].exists /\ files[f].run = files[ScalerFile].run
    /\ ~files[ForestFile].obj.is_none
    /\ ~files[DbscanFile].obj.is_none

LoadReturned == op = "load_models" /\ pc = "idle" /\ err = "none"

\* C6: after load_models has restored the artifacts of a completed training
\* run, the restored standardizer is the one fitted on the columns the
\* restored Isolation Forest was fitted on.
C6_RestoredScalerFitsForest ==
    (LoadReturned /\ SavedByOneTrainingRun) =>
        /\ scaler.fitted
        /\ scaler.cols = isolation_forest.cols
        /\ scaler.run = isolation_forest.run

\* C7: cluster_behavior_patterns leaves the standardizer state fitted by the
\* Detector unchanged (the two stages share no fitted standardizer).
C7_ClustererKeepsDetectorScaler ==
    [][pc = "cluster_behavior" => scaler' = scaler]_vars

\* C8: a load_models call that ends either raised ModelNotTrainedError or
\* returned with a fitted standardizer, a detector and a clusterer in place.
C8_LoadFailsLoudly ==
    (op = "load_models" /\ pc = "idle") =>
        IF err = "none"
        THEN scaler.fitted /\ ~isolation_forest.is_none /\ ~dbscan.is_none
        ELSE err = "ModelNotTrainedError"

\* C9: whenever no operation is in progress the two result tables on disk come
\* from the same run, and a run that failed has written neither of them.
C9_ResultsAllOrNothing ==
    pc = "idle" =>
        /\ files[TripsFile] = Absent <=> files[DriversFile] = Absent
        /\ files[TripsFile].run = files[DriversFile].run
        /\ (op = "run_full_pipeline" /\ err # "none") =>
              \A f \in ResultFiles : ~(files[f].exists /\ files[f].run = run)

\* C10: whenever no operation is in progress the model directory holds none of
\* the three artifacts or all three, written by the same save.
C10_ModelsSavedAtomically ==
    pc = "idle" =>
        \/ \A f \in ModelFiles : ~files[f].exists
        \/ \A f \in ModelFiles :
              files[f].exists /\ files[f].run = files[ScalerFile].run

-----------------------------------------------------------------------------
(* Claims about the regional context and the risk components (Spec) *)

\* C11: when the regional-risk source raises or returns an empty table in a
\* run with use_government_data=True, the run records no error, goes on
\* without a usable context, and every scored trip row has
\* risk_gov_context = 0.
C11_GovSourceFailureIsAbsorbed ==
    gov_fetch \in {"raised", "empty"} =>
        /\ err = "none"
        /\ pc # "idle"
        /\ ~HasGovContext(government_df)
        /\ Scored => \A i \in 1..Len(features_df) :
                        features_df[i].risk_gov_context = Rat(0)

\* a run whose source returned an empty table got through the aggregation
\* with a fast evening trip, which a usable context would have weighted
C11_Witness ==
    /\ Aggregated
    /\ gov_fetch = "empty"
    /\ \E i \in 1..Len(features_df) :
          /\ features_df[i].max_speed_kmh > accident_prone_speed
          /\ features_df[i].hour_of_day \in high_accident_hours
          /\ features_df[i].risk_gov_context = Rat(0)

\* a context in which every region maps to risk index 0
ZeroContext == [is_none |-> FALSE, table |-> {<<"Rajasthan", 0>>}]

\* the raw regional columns of the feature table
RegionalCols ==
    {"state", "gov_state_risk", "gov_high_accident_time",
     "gov_speed_accident_prone", "gov_compound_risk",
     "gov_deviation_risk_interaction"}

NonRegional(row) == [c \in (DOMAIN row) \ RegionalCols |-> row[c]]

\* the scored table of the run on the same trips without regional context:
\* the detector and the clusterer do not read regional columns, so their
\* flags are those of the current run
DegradedRun ==
    LET plain == extract_features(trips_df, NoGovernmentDf)
        flagged == [i \in 1..Len(plain) |->
                      plain[i] @@
                      [anomaly_if |-> features_df[i].anomaly_if,
                       anomaly_score_if |-> features_df[i].anomaly_score_if,
                       behavior_cluster |-> features_df[i].behavior_cluster,
                       is_outlier_dbscan |-> features_df[i].is_outlier_dbscan]]
    IN calculate_risk_scores(flagged, FALSE)

NoHighAccidentHour ==
    \A i \in 1..Len(trips_df) : trips_df[i].hour_of_day \notin high_accident_hours

NoAccidentProneSpeed ==
    \A i \in 1..Len(trips_df) : trips_df[i].max_speed_kmh <= accident_prone_speed

SameAsDegradedRun ==
    /\ \A i \in 1..Len(features_df) :
          NonRegional(features_df[i]) = NonRegional(DegradedRun[i])
    /\ driver_metrics = aggregate_driver_scores(DegradedRun)

\* C12 (as stated): a run with a context that maps every region to index 0,
\* on a table with no trip in a high-accident hour, gives the same scored
\* rows outside the raw regional columns, and the same driver aggregates, as
\* the run without context.
C12_DegradedMode ==
    (Aggregated /\ government_df = ZeroContext /\ NoHighAccidentHour)
        => SameAsDegradedRun

\* C12 (amended): the same, for tables in which moreover no trip's
\* max_speed_kmh exceeds the accident-prone speed 80.
C12_DegradedModeBelowAccidentSpeed ==
    (Aggregated /\ government_df = ZeroContext /\ NoHighAccidentHour
        /\ NoAccidentProneSpeed)
        => SameAsDegradedRun

\* a zero-context run on slow daytime trips that scored above 0
C12_Witness ==
    /\ Aggregated
    /\ government_df = ZeroContext
    /\ NoHighAccidentHour
    /\ NoAccidentProneSpeed
    /\ \E i \in 1..Len(features_df) :
          /\ RLt(Rat(0), features_df[i].risk_score)
          /\ features_df[i].gov_state_risk = 0

\* C13: in a scored table risk_gov_context is gov_compound_risk divided by
\* the table maximum of gov_compound_risk, times 20, when the run loaded a
\* non-empty context and that maximum is positive; it is 0 in every row when
\* the context was disabled, failed to load, was empty, or the maximum is 0,
\* and calculate_risk_scores with use_gov_context false gives 0 in every row.
C13_GovComponent ==
    /\ Scored =>
          LET n == Len(features_df)
              mx == SeqMax([i \in 1..n |-> features_df[i].gov_compound_risk])
          IN \A i \in 1..n :
               features_df[i].risk_gov_context =
                 IF gov_fetch = "loaded" /\ RLt(Rat(0), mx)
                 THEN RMul(RDiv(features_df[i].gov_compound_risk, mx), Rat(20))
                 ELSE Rat(0)
    /\ pc = "calculate_risk" =>
          \A i \in 1..Len(features_df) :
             calculate_risk_scores(features_df, FALSE)[i].risk_gov_context = Rat(0)

\* a run with a loaded context scored one row at the full 20 and another
\* strictly between 0 and 20
C13_Witness ==
    /\ Scored
    /\ gov_fetch = "loaded"
    /\ \E i, j \in 1..Len(features_df) :
          /\ features_df[i].risk_gov_context = Rat(20)
          /\ RLt(Rat(0), features_df[j].risk_gov_context)
          /\ RLt(features_df[j].risk_gov_context, Rat(20))

\* C14: in a scored table risk_if is 30 for the rows whose anomaly_if is set
\* and 0 for the others, risk_dbscan is 25 for the rows whose
\* is_outlier_dbscan is set and 0 for the others, and is_outlier_dbscan is
\* set exactly for the rows whose behavior_cluster is -1.
C14_FlagComponents ==
    Scored =>
        \A i \in 1..Len(features_df) :
            LET row == features_df[i]
            IN /\ row.anomaly_if \in {0, 1}
               /\ row.is_outlier_dbscan \in {0, 1}
               /\ row.risk_if = IF row.anomaly_if = 1 THEN Rat(30) ELSE Rat(0)
               /\ row.risk_dbscan =
                     IF row.is_outlier_dbscan = 1 THEN Rat(25) ELSE Rat(0)
               /\ (row.is_outlier_dbscan = 1) <=> (row.behavior_cluster = -1)

\* a scored table with an anomaly that is clustered and a noise point that is
\* no anomaly
C14_Witness ==
    /\ Scored
    /\ \E i, j \in 1..Len(features_df) :
          /\ features_df[i].anomaly_if = 1
          /\ features_df[i].behavior_cluster = 0
          /\ features_df[j].anomaly_if = 0
          /\ features_df[j].behavior_cluster = -1

\* table maxima of the two normalised columns of a scored table
MaxDeviation ==
    SeqMax([i \in 1..Len(features_df) |->
              Rat(features_df[i].route_deviation_score)])

SpeedExcess(row) ==
    IF row.max_speed_kmh > speed_limit
    THEN Rat(row.max_speed_kmh - speed_limit) ELSE Rat(0)

MaxSpeedExcess ==
    SeqMax([i \in 1..Len(features_df) |-> SpeedExcess(features_df[i])])

\* C15 (as stated): in a scored table risk_route * max = route_deviation_score
\* * 15 and risk_speed * max = excess * 10 whenever the respective table
\* maximum is not 0, both components are 0 in every row when it is 0, and a
\* row holding a non-zero maximum has the full weight.
C15_NormalisedComponents ==
    Scored =>
        LET max_dev == MaxDeviation
            max_exc == MaxSpeedExcess
        IN \A i \in 1..Len(features_df) :
            LET row == features_df[i]
            IN /\ IF max_dev = Rat(0) THEN row.risk_route = Rat(0)
                  ELSE /\ RMul(row.risk_route, max_dev) =
                            RMul(Rat(row.route_deviation_score), Rat(15))
                       /\ Rat(row.route_deviation_score) = max_dev
                            => row.risk_route = Rat(15)
               /\ IF max_exc = Rat(0) THEN row.risk_speed = Rat(0)
                  ELSE /\ RMul(row.risk_speed, max_exc) =
                            RMul(SpeedExcess(row), Rat(10))
                       /\ SpeedExcess(row) = max_exc
                            => row.risk_speed = Rat(10)

\* C15 (amended): risk_route = route_deviation_score / max * 15 and
\* risk_speed = excess / max * 10 when the respective table maximum is
\* positive, a row holding a positive maximum has the full weight, and the
\* component is 0 in every row when the maximum is 0 or negative.
C15_NormalisedByPositiveMax ==
    Scored =>
        LET max_dev == MaxDeviation
            max_exc == MaxSpeedExcess
        IN \A i \in 1..Len(features_df) :
            LET row == features_df[i]
            IN /\ IF RLt(Rat(0), max_dev)
                  THEN /\ row.risk_route =
                            RMul(RDiv(Rat(row.route_deviation_score),
                                      max_dev), Rat(15))
                       /\ Rat(row.route_deviation_score) = max_dev
                            => row.risk_route = Rat(15)
                  ELSE row.risk_route = Rat(0)
               /\ IF RLt(Rat(0), max_exc)
                  THEN /\ row.risk_speed =
                            RMul(RDiv(SpeedExcess(row), max_exc), Rat(10))
                       /\ SpeedExcess(row) = max_exc
                            => row.risk_speed = Rat(10)
                  ELSE row.risk_speed = Rat(0)

\* a scored table in which one row holds both maxima and another has neither
\* deviation nor excess speed
C15_Witness ==
    /\ Scored
    /\ \E i, j \in 1..Len(features_df) :
          /\ features_df[i].risk_route = Rat(15)
          /\ features_df[i].risk_speed = Rat(10)
          /\ features_df[j].risk_route = Rat(0)
          /\ features_df[j].risk_speed = Rat(0)

-----------------------------------------------------------------------------
(* Claims about the Driver Aggregator (Spec) *)

\* the scored trips of worker d, in table order
TripsOfWorker(d) == SelectSeq(features_df, LAMBDA row : row.driver_id = d)

\* C16: in every row of the driver table anomaly_rate is anomalous_trips /
\* total_trips * 100 and driver_risk_score is the smaller of 100 and 0.6 *
\* mean + 0.3 * max + 0.1 * anomaly_rate, where the counts, the mean and the
\* max are those of exactly the worker's own trips in the scored table.
C16_DriverScoreFormula ==
    Aggregated =>
        \A d \in DOMAIN driver_metrics :
            LET own == TripsOfWorker(d)
                n == Len(own)
                scores == [i \in 1..n |-> own[i].risk_score]
                mean == RDiv(SeqSum(scores), Rat(n))
                mx == SeqMax(scores)
                flagged == Cardinality({i \in 1..n : own[i].anomaly_if = 1})
                row == driver_metrics[d]
                weighted == RAdd(RAdd(RMul(<<6, 10>>, row.risk_score_mean),
                                      RMul(<<3, 10>>, row.risk_score_max)),
                                 RMul(<<1, 10>>, row.anomaly_rate))
            IN /\ row.total_trips = n
               /\ row.anomalous_trips = flagged
               /\ row.risk_score_mean = mean
               /\ row.risk_score_max = mx
               /\ row.anomaly_rate =
                     RMul(RDiv(Rat(row.anomalous_trips), Rat(row.total_trips)),
                          Rat(100))
               /\ row.driver_risk_score =
                     IF RLt(Rat(100), weighted) THEN Rat(100) ELSE weighted

\* a worker with two trips of different scores, one of them flagged
C16_Witness ==
    /\ Aggregated
    /\ \E d \in DOMAIN driver_metrics :
          /\ driver_metrics[d].total_trips = 2
          /\ driver_metrics[d].anomalous_trips = 1
          /\ driver_metrics[d].risk_score_mean # driver_metrics[d].risk_score_max

\* C17: a worker with exactly one trip has risk_score_mean and risk_score_max
\* equal to that trip's risk_score, and risk_score_std equal to 0.
C17_SingleTripAggregate ==
    Aggregated =>
        \A d \in DOMAIN driver_metrics :
            driver_metrics[d].total_trips = 1 =>
                /\ driver_metrics[d].risk_score_mean = TripsOfWorker(d)[1].risk_score
                /\ driver_metrics[d].risk_score_max = TripsOfWorker(d)[1].risk_score
                /\ driver_metrics[d].risk_score_std =
                      [is_nan |-> FALSE, squared |-> Rat(0)]

\* the scored table with is_outlier_dbscan cleared in every row
WithoutOutlierFlags ==
    [i \in 1..Len(features_df) |->
        [features_df[i] EXCEPT !.is_outlier_dbscan = 0]]

\* C18: for every worker, driver_risk_score and driver_risk_level are those
\* aggregated from the table that has the same driver_id, risk_score and
\* anomaly_if in every row and no is_outlier_dbscan flag set; two scored
\* tables that agree on those three columns therefore aggregate to the same
\* score and level, whatever their outlier flags.
C18_OutlierFlagOnlyThroughRiskScore ==
    Aggregated =>
        LET other == aggregate_driver_scores(WithoutOutlierFlags)
        IN /\ DOMAIN other = DOMAIN driver_metrics
           /\ \A d \in DOMAIN driver_metrics :
                 /\ other[d].driver_risk_score =
                       driver_metrics[d].driver_risk_score
                 /\ other[d].driver_risk_level =
                       driver_metrics[d].driver_risk_level

\* a worker with a positive score, one of whose two trips is a cluster outlier
C18_Witness ==
    /\ Aggregated
    /\ \E d \in DOMAIN driver_metrics :
          /\ driver_metrics[d].total_trips = 2
          /\ driver_metrics[d].outlier_trips = 1
          /\ RLt(Rat(0), driver_metrics[d].driver_risk_score)

\* C19: the driver table has exactly one row for each driver_id that occurs
\* in the scored trip table and no other row: every row has total_trips >= 1,
\* the total_trips values add up to the number of trip rows, and a worker
\* without a trip has no row.
C19_OneRowPerWorker ==
    Aggregated =>
        LET present == {features_df[i].driver_id : i \in 1..Len(features_df)}
            counted == UNION {{<<d, k>> : k \in 1..driver_metrics[d].total_trips} :
                              d \in DOMAIN driver_metrics}
        IN /\ DOMAIN driver_metrics = present
           /\ \A d \in DOMAIN driver_metrics :
                 /\ driver_metrics[d].driver_id = d
                 /\ driver_metrics[d].total_trips >= 1
           /\ Cardinality(counted) = Len(features_df)
           /\ \A d \in DriverIds \ present : d \notin DOMAIN driver_metrics

\* a two-trip table of one worker, aggregated while the other known worker
\* has no trip
C19_Witness ==
    /\ Aggregated
    /\ Len(features_df) = 2
    /\ \E d \in DriverIds :
          /\ DOMAIN driver_metrics = {d}
          /\ driver_metrics[d].total_trips = 2
          /\ DriverIds \ {d} # {}

-----------------------------------------------------------------------------
(* Claims about the Anomaly Detector (Spec) *)

\* C20: a run on a trips table of fewer than 2 rows does not get past
\* detect_anomalies_isolation_forest: it ends there with an
\* InsufficientDataError, and no row ever carries anomaly_if.
C20_TooFewRowsRejected ==
    (op = "run_full_pipeline" /\ Len(trips_df) < 2) =>
        /\ \/ pc \in {"load_government", "extract_features", "detect_anomalies"}
           \/ pc = "idle" /\ err = "InsufficientDataError"
        /\ \A i \in 1..Len(features_df) :
              "anomaly_if" \notin DOMAIN features_df[i]

-----------------------------------------------------------------------------
(* Claims about a run on a table without a required column (StoreSpec) *)

\* C21: a run on a trips table that lacks a required column ends with a
\* SchemaError, and writes no result table and no model artifact.
C21_MissingColumnIsSchemaError ==
    (op = "run_full_pipeline" /\ MissingCols(trips_df) # {}) =>
        /\ \/ pc \in {"load_government", "extract_features"}
           \/ pc = "idle" /\ err = "SchemaError"
        /\ \A f \in ResultFiles \cup ModelFiles :
              ~(files[f].exists /\ files[f].run = run)

-----------------------------------------------------------------------------
(* Claims about the serving layer (ServeSpec) *)

\* C28: every driver in an answer of get_high_risk_drivers has
\* requires_action true exactly when its reported risk_level is "High".
C28_RequiresActionMatchesLevel ==
    \A d \in DOMAIN response :
        response[d].requires_action <=> (response[d].risk_level = "High")

-----------------------------------------------------------------------------
(* Claims about the Feature Extractor (Spec) *)

\* the five regional columns
GovCols == RegionalCols \ {"state"}

\* C22: the feature table that extract_features returns has the same set of
\* columns as the one it returns for the same trips without regional context;
\* the five regional columns are always there, and hold 50/0 placeholders
\* when the context is absent or empty.
C22_StableSchema ==
    pc = "detect_anomalies" =>
        \A i \in 1..Len(features_df) :
            /\ GovCols \subseteq DOMAIN features_df[i]
            /\ DOMAIN features_df[i] =
                  DOMAIN ExtractRow(trips_df[i], NoGovernmentDf)
            /\ ~HasGovContext(government_df) =>
                  /\ features_df[i].gov_state_risk = 50
                  /\ features_df[i].gov_high_accident_time = 0
                  /\ features_df[i].gov_speed_accident_prone = 0
                  /\ features_df[i].gov_compound_risk = Rat(0)
                  /\ features_df[i].gov_deviation_risk_interaction = Rat(0)

\* C23: when extract_features has returned, the feature table has as many
\* rows as the trip table, every column of a trip row is in the feature row
\* with the same value, and the caller's trip table is still the table that
\* was loaded.
C23_ExtractIsPureTransform ==
    pc = "detect_anomalies" =>
        /\ Len(features_df) = Len(trips_csv)
        /\ \A i \in 1..Len(trips_csv) :
              \A c \in DOMAIN trips_csv[i] :
                  /\ c \in DOMAIN features_df[i]
                  /\ features_df[i][c] = trips_csv[i][c]
        /\ trips_df = trips_csv

\* extraction with a loaded context has returned for a two-row table, and
\* the feature rows have columns the trip rows do not have
C23_Witness ==
    /\ pc = "detect_anomalies"
    /\ gov_fetch = "loaded"
    /\ Len(trips_df) = 2
    /\ \A i \in 1..Len(features_df) :
          DOMAIN features_df[i] \ DOMAIN trips_df[i] # {}

-----------------------------------------------------------------------------
(* Claims about the stages after feature extraction (Spec) *)

\* the step appends exactly the columns cols to every row of the feature
\* table and leaves the rows and the other columns as they are
AppendsExactly(cols) ==
    /\ Len(features_df') = Len(features_df)
    /\ \A i \in 1..Len(features_df) :
          /\ DOMAIN features_df'[i] = DOMAIN features_df[i] \cup cols
          /\ cols \cap DOMAIN features_df[i] = {}
          /\ \A c \in DOMAIN features_df[i] :
                features_df'[i][c] = features_df[i][c]

\* the columns the specification gives to the Risk Composer
RiskCols ==
    {"risk_if", "risk_dbscan", "risk_route", "risk_speed", "risk_gov_context",
     "risk_score", "risk_level"}

\* C24: the detector step appends exactly anomaly_if and anomaly_score_if,
\* the clusterer step exactly behavior_cluster and is_outlier_dbscan, the
\* risk step exactly the five components, risk_score and risk_level; none of
\* them changes a column that was there before.
C24_StagesAppendOwnColumns ==
    [][/\ pc = "detect_anomalies" =>
            AppendsExactly({"anomaly_if", "anomaly_score_if"})
       /\ pc = "cluster_behavior" =>
            AppendsExactly({"behavior_cluster", "is_outlier_dbscan"})
       /\ pc = "calculate_risk" => AppendsExactly(RiskCols)]_vars

\* the score_samples value of row i of a table the detector has flagged
NativeScoreOfRow(i) ==
    NativeScore(IF features_df[i].anomaly_if = 1 THEN -1 ELSE 1)

\* C26: every row of a table the detector has processed has an
\* anomaly_score_if that is a number between 0 and 100; a row with the
\* lowest score_samples value of the table has 100 and a row with the
\* highest has 0, also when all rows have the same score_samples value.
C26_AnomalyScoreNormalised ==
    pc = "cluster_behavior" =>
        LET n == Len(features_df)
            native == [i \in 1..n |-> NativeScoreOfRow(i)]
            lo == SeqMin(native)
            hi == SeqMax(native)
        IN \A i \in 1..n :
             LET score == features_df[i].anomaly_score_if
             IN /\ ~score.is_nan
                /\ InRange(score.value, 0, 100)
                /\ (native[i] = lo /\ lo # hi) => score.value = Rat(100)
                /\ (native[i] = hi /\ lo # hi) => score.value = Rat(0)

-----------------------------------------------------------------------------
(* Claims about repeated runs (RunSpec) *)

\* the tables an earlier run on this trips file has written
EarlierTrips == files[TripsFile].obj

EarlierDrivers == files[DriversFile].obj

\* this run has aggregated, and both result tables on disk come from one
\* earlier run
SecondRunAggregated ==
    /\ op = "run_full_pipeline"
    /\ Aggregated
    /\ files[TripsFile].exists
    /\ files[DriversFile].exists
    /\ files[TripsFile].run = files[DriversFile].run
    /\ files[TripsFile].run < run

\* the earlier run had the regional context of this run, and the seeded
\* detector and the clusterer returned for each row what they return now
SameInputsAsEarlierRun ==
    \A i \in (DOMAIN EarlierTrips) \cap (DOMAIN features_df) :
        /\ ("state" \in DOMAIN EarlierTrips[i]) = HasGovContext(government_df)
        /\ EarlierTrips[i].gov_state_risk =
              ExtractRow(trips_csv[i], government_df).gov_state_risk
        /\ EarlierTrips[i].anomaly_if = features_df[i].anomaly_if
        /\ EarlierTrips[i].anomaly_score_if = features_df[i].anomaly_score_if
        /\ EarlierTrips[i].behavior_cluster = features_df[i].behavior_cluster

StepRank(step) ==
    CASE step = "load_government" -> 1
      [] step = "extract_features" -> 2
      [] step = "detect_anomalies" -> 3
      [] step = "cluster_behavior" -> 4
      [] step = "calculate_risk" -> 5
      [] step = "aggregate" -> 6
      [] step = "save_results" -> 7
      [] step = "write_driver_metrics" -> 8
      [] step = "save_scaler" -> 9
      [] step = "save_forest" -> 10
      [] step = "save_dbscan" -> 11
      [] OTHER -> 0

\* a step of a run goes to the step that follows it (the two writes are left
\* out together when the tables are not saved), or the run ends: after the
\* last dump, or with an error
RunStepOrder ==
    (op = "run_full_pipeline" /\ pc # "idle" /\ pc' # pc) =>
        \/ StepRank(pc') = StepRank(pc) + 1
        \/ pc = "save_results" /\ pc' = "save_scaler"
        \/ pc' = "idle" /\ (pc = "save_dbscan" \/ err' # "none")

\* what a run has done when it reaches risk scoring and save_models
RunStepsDone ==
    op = "run_full_pipeline" =>
        /\ pc = "calculate_risk" =>
              \A i \in 1..Len(features_df) :
                  {"anomaly_if", "is_outlier_dbscan"} \subseteq DOMAIN features_df[i]
        /\ pc \in {"save_scaler", "save_forest", "save_dbscan"} =>
              /\ ~isolation_forest.is_none /\ isolation_forest.run = run
              /\ ~dbscan.is_none /\ dbscan.run = run
              /\ DOMAIN driver_metrics # {}

\* C27: the steps of every run follow one another in the order load,
\* feature extraction, anomaly detection, clustering, risk scoring, driver
\* aggregation, write of the two tables, save_models; risk scoring starts
\* only on a table that has both flag columns, and save_models only when
\* the forest and DBSCAN have been fitted in this run.
C27_StepsInOrder == []RunStepsDone /\ [][RunStepOrder]_vars

\* the first run is at its last dump, with both tables written and both
\* models fitted in this run
C27_Witness ==
    /\ op = "run_full_pipeline"
    /\ pc = "save_dbscan"
    /\ run = 1
    /\ \A f \in ResultFiles : files[f].exists /\ files[f].run = run
    /\ isolation_forest.run = run
    /\ dbscan.run = run

-----------------------------------------------------------------------------
(* Claims about load_models and the save_results flag *)

\* the three objects load_models assigns
models == <<scaler, isolation_forest, dbscan>>

\* C29: a load_models call that returns has put the three persisted
\* artifacts in place, and a call changes scaler, isolation_forest or dbscan
\* only if all three files can be read, so that a call that raises leaves
\* the three as they were.
C29_LoadAllOrNothing ==
    /\ [](LoadReturned =>
            /\ scaler = files[ScalerFile].obj
            /\ isolation_forest = files[ForestFile].obj
            /\ dbscan = files[DbscanFile].obj)
    /\ [][(op' = "load_models" /\ models' # models) =>
            \A f \in ModelFiles : CanOpen(f)]_vars

\* file f has been written during the current run
WrittenThisRun(f) == files[f].exists /\ files[f].run = run

\* a run_full_pipeline call has returned
RunReturned == op = "run_full_pipeline" /\ pc = "idle" /\ err = "none"

\* C30: a run that goes from step 7 straight to save_models (save_results
\* false) writes no file in that step; when save_models starts no artifact
\* of this run is on disk yet, and the result tables of this run are both
\* written or both not; a run that has returned has persisted the three
\* artifacts, with both result tables of this run or with neither.
C30_SaveResultsFlag ==
    /\ [][(op = "run_full_pipeline" /\ pc = "save_results"
              /\ pc' = "save_scaler") => files' = files]_vars
    /\ []((op = "run_full_pipeline" /\ pc = "save_scaler") =>
            /\ \A f \in ModelFiles : ~WrittenThisRun(f)
            /\ \/ \A f \in ResultFiles : WrittenThisRun(f)
               \/ \A f \in ResultFiles : ~WrittenThisRun(f))
    /\ [](RunReturned =>
            /\ \A f \in ModelFiles : WrittenThisRun(f)
            /\ \/ \A f \in ResultFiles : WrittenThisRun(f)
               \/ \A f \in ResultFiles : ~WrittenThisRun(f))

\* the first run has returned without result tables and with its three
\* artifacts on disk
C30_Witness ==
    /\ RunReturned
    /\ run = 1
    /\ \A f \in ResultFiles : ~files[f].exists
    /\ \A f \in ModelFiles : WrittenThisRun(f)

=============================================================================
